---- MODULE Spec2Model ----
(***************************************************************************)
(* Bridge discovery of go.hue: DiscoverBridges (orchestrator),             *)
(* scanLocalNetwork, validateBridges (confirmer), upnpDiscover (multicast  *)
(* prober) and nupnpDiscover (cloud registry prober), communicating over   *)
(* the two buffered channels hostChannel and bridgeChannel.                *)
(*                                                                         *)
(* The repository holds three revisions of DiscoverBridges:                *)
(*   src/discover.go      nupnpDiscover commented out, scanStarted set to  *)
(*                        true before it is tested (lines 57-58)           *)
(*   src/unnamed/part_006 nupnpDiscover started, scanStarted set to true   *)
(*                        before it is tested (lines 74-75)                *)
(*   src/unnamed/part_005 nupnpDiscover started, escalation reachable      *)
(* The variable `variant` selects the revision a run executes.             *)
(***************************************************************************)
EXTENDS Integers, Sequences, FiniteSets, TLC

\* ---- bounds of the model ----
\* capacity of hostChannel and of bridgeChannel. The source allocates both
\* with capacity 10 (discover.go:26-27); the model scales the buffers down,
\* the blocking rules of a buffered channel are unchanged.
ChanCap == 1
\* number of distinct addresses that answer the multicast probe or are
\* listed by the cloud registry
MaxAddr == 1
\* longest manifest the cloud registry returns
MaxManifest == 1
\* largest number of hosts the subnet scan reports
MaxScanHosts == 2
\* number of hosts whose multicast responses are examined one by one
MaxHost == 2
\* number of goroutines that issue requests through one Bridge
MaxCallers == 2
\* largest delayBetweenRequests, in ticks of the clock
MaxDelay == 2
\* the clock of the timed runs stops at this tick
MaxTime == 6
\* discoveryTimeout, in ticks of the clock
discoveryTimeout == 2
\* number of distinct usernames a bridge hands out
MaxUser == 2
\* longest response array of the bridge to a registration
MaxEntries == 2
\* largest number of lights of a scene
MaxLights == 3

Addr == 1..MaxAddr
ScanAddr == 1..MaxScanHosts
Variants == {"discover.go", "part_006", "part_005"}

VARIABLES
    variant,            \* revision of DiscoverBridges that runs
    discoverAllBridges, \* parameter of DiscoverBridges
    pc,                 \* position of DiscoverBridges
    bridges,            \* var bridges []Bridge
    err,                \* returned error: "none" before return, "nil", "failed"
    scanStarted,        \* local scanStarted
    scanHosts,          \* hosts of lanscan.ScanLinkLocal still to feed
    hostChannel,        \* buffered content of hostChannel
    hostClosed,         \* close(hostChannel) was executed
    bridgeChannel,      \* buffered content of bridgeChannel
    bridgeClosed,       \* close(bridges) was executed
    upc,                \* position of upnpDiscover
    origins,            \* var origins []string of upnpDiscover
    upending,           \* address upnpDiscover is about to send (0: none)
    socketOpen,         \* the UDP socket of upnpDiscover is open
    readError,          \* error of the ReadFromUDP that failed: "none",
                        \* "timeout" (net.Error with Timeout()), "other"
    npc,                \* position of nupnpDiscover
    manifest,           \* decoded records nupnpDiscover still has to emit
    vpc,                \* position of validateBridges
    candidate,          \* loop variable candidate of validateBridges (0: none)
    panicked,           \* a goroutine panicked: the process is gone
    scanCount,          \* history: calls of scanLocalNetwork in this run
    timeouts,           \* history: expiries of time.After in this run
    sent,               \* history: values validateBridges put on bridgeChannel
                        \* before DiscoverBridges returned
    emitted,            \* history: addresses the three sources put on
                        \* hostChannel before DiscoverBridges returned
    confirmed,          \* history: addresses whose description held all three
                        \* fingerprints, fetched before DiscoverBridges returned
    probe,              \* the response under examination and the history of
                        \* the examined prober (see Examining)
    side                \* what a run that observes one component or exercises
                        \* a Bridge keeps besides the discovery (see Side)

vars == <<variant, discoverAllBridges, pc, bridges, err, scanStarted,
          scanHosts, hostChannel, hostClosed, bridgeChannel, bridgeClosed,
          upc, origins, upending, socketOpen, readError, npc, manifest, vpc, candidate,
          panicked, scanCount, timeouts, sent, emitted, confirmed,
          probe, side>>

\* history kept by the runs that observe nupnpDiscover or validateBridges
\* (see NothingObserved)
observed == side.observed
\* time.Now(), in ticks
now == side.now
\* the Bridge that requests go through, with the positions of its callers
\* (see BridgeInUse)
bridge == side.bridge
\* the timer of the current wait of DiscoverBridges (see TimerArmed)
timer == side.timer
\* the Scene whose light states are modified (see SceneOf)
scene == side.scene

\* the response under examination (its text is body)
response == probe.response
\* the host it came from (addr.IP), 0: none
sender == probe.sender
\* outcome of ssdpResponseValid(body, addr.IP) on it
verdict == probe.verdict
\* history: flips at every datagram read under examination
readTick == probe.readTick
\* history: hosts in the order of their first valid datagram
firstValid == probe.firstValid
\* history: what upnpDiscover sent on respondingHosts
upnpSent == probe.upnpSent

orchVars == <<pc, bridges, err, scanStarted, scanHosts, scanCount, timeouts>>
upnpVars == <<upc, origins, upending, socketOpen, readError>>
nupnpVars == <<npc, manifest>>
validVars == <<vpc, candidate, sent, confirmed>>
paramVars == <<variant, discoverAllBridges>>
\* the variables of the discovery run
discoveryVars ==
    <<paramVars, probe, orchVars, upnpVars, nupnpVars, validVars,
      hostChannel, hostClosed, bridgeChannel, bridgeClosed, emitted, panicked>>

\* ---- helpers ----
SeqsUpTo(S, n) == UNION {[1..k -> S] : k \in 0..n}
\* for _, origin := range origins { if origin == addr.IP.String() ... }
ContainsNever(s, x) == FALSE
Contains(s, x) == \E i \in 1..Len(s) : s[i] = x
\* the lists without repetition over S: what lanscan.ScanLinkLocal can report
DistinctSeqs(S) ==
    {q \in SeqsUpTo(S, Cardinality(S)) :
        \A i, j \in 1..Len(q) : i # j => q[i] # q[j]}

\* ---- strings: a Go string is the sequence of its characters ----

MatchAt(s, t, i) ==
    /\ i + Len(t) - 1 <= Len(s)
    /\ \A k \in 1..Len(t) : s[i + k - 1] = t[k]

\* strings.Contains(s, substr)
StringsContains(s, substr) == \E i \in 1..(Len(s) + 1) : MatchAt(s, substr, i)

\* strings.Index(s, substr), counted from 1; 0 when substr does not occur
StringsIndex(s, substr) ==
    LET at == {i \in 1..(Len(s) + 1) : MatchAt(s, substr, i)}
    IN  IF at = {} THEN 0 ELSE CHOOSE i \in at : \A j \in at : i <= j

UpperToLower ==
    "A" :> "a" @@ "B" :> "b" @@ "C" :> "c" @@ "D" :> "d" @@ "E" :> "e" @@
    "F" :> "f" @@ "G" :> "g" @@ "H" :> "h" @@ "I" :> "i" @@ "J" :> "j" @@
    "K" :> "k" @@ "L" :> "l" @@ "M" :> "m" @@ "N" :> "n" @@ "O" :> "o" @@
    "P" :> "p" @@ "Q" :> "q" @@ "R" :> "r" @@ "S" :> "s" @@ "T" :> "t" @@
    "U" :> "u" @@ "V" :> "v" @@ "W" :> "w" @@ "X" :> "x" @@ "Y" :> "y" @@
    "Z" :> "z"

\* strings.ToLower(s)
StringsToLower(s) ==
    [i \in 1..Len(s) |->
        IF s[i] \in DOMAIN UpperToLower THEN UpperToLower[s[i]] ELSE s[i]]

\* strings.SplitAfter(s, sep): the pieces of s, each ending with sep but the last
RECURSIVE StringsSplitAfter(_, _)
StringsSplitAfter(s, sep) ==
    LET i == StringsIndex(s, sep)
    IN  IF i = 0
           THEN <<s>>
           ELSE <<SubSeq(s, 1, i + Len(sep) - 1)>>
                \o StringsSplitAfter(SubSeq(s, i + Len(sep), Len(s)), sep)

\* strings.Split(s, sep): the pieces of s between the occurrences of sep
RECURSIVE StringsSplit(_, _)
StringsSplit(s, sep) ==
    LET i == StringsIndex(s, sep)
    IN  IF i = 0
           THEN <<s>>
           ELSE <<SubSeq(s, 1, i - 1)>>
                \o StringsSplit(SubSeq(s, i + Len(sep), Len(s)), sep)

\* ---- SSDP responses ----

\* the hosts a response can come from or name in its LOCATION
Hosts == 1..MaxHost
Digits == <<"1", "2", "3", "4", "5", "6", "7", "8", "9">>

StrStatusOK ==
    <<"H", "T", "T", "P", "/", "1", ".", "1", " ", "2", "0", "0", " ", "O",
      "K">>

StrHostPrefix == <<"1", "0", ".", "0", ".", "0", ".">>

StrStatusNotFound ==
    <<"H", "T", "T", "P", "/", "1", ".", "1", " ", "4", "0", "4", " ", "N",
      "o", "t", " ", "F", "o", "u", "n", "d">>

StrHostHeader ==
    <<"H", "O", "S", "T", ":", " ", "2", "3", "9", ".", "2", "5", "5", ".",
      "2", "5", "5", ".", "2", "5", "0", ":", "1", "9", "0", "0">>

StrLocationSpaced == <<"L", "O", "C", "A", "T", "I", "O", "N", ":", " ">>

StrLocationTight == <<"L", "O", "C", "A", "T", "I", "O", "N", ":">>

StrSchemeHttp == <<"h", "t", "t", "p", ":", "/", "/">>

StrSchemeHttps == <<"h", "t", "t", "p", "s", ":", "/", "/">>

StrPort == <<":", "8", "0">>

StrPath ==
    <<"/", "d", "e", "s", "c", "r", "i", "p", "t", "i", "o", "n", ".", "x",
      "m", "l">>

StrServerBridge ==
    <<"S", "E", "R", "V", "E", "R", ":", " ", "F", "r", "e", "e", "R", "T",
      "O", "S", "/", "7", ".", "4", ".", "2", " ", "U", "P", "n", "P", "/",
      "1", ".", "0", " ", "I", "p", "B", "r", "i", "d", "g", "e", "/", "1",
      ".", "1", "0", ".", "0">>

StrServerOther ==
    <<"S", "E", "R", "V", "E", "R", ":", " ", "L", "i", "n", "u", "x", "/",
      "3", ".", "1", "4", " ", "U", "P", "n", "P", "/", "1", ".", "0", " ",
      "M", "i", "n", "i", "D", "L", "N", "A", "/", "1", ".", "1", ".", "4">>

StrStHeader ==
    <<"S", "T", ":", " ", "u", "p", "n", "p", ":", "r", "o", "o", "t", "d",
      "e", "v", "i", "c", "e">>

StrUsnHeader ==
    <<"U", "S", "N", ":", " ", "u", "u", "i", "d", ":", "2", "f", "4", "0",
      "2", "f", "8", "0", "-", "d", "a", "5", "0", "-", "1", "1", "e", "1",
      "-", "9", "b", "2", "3", "-", "0", "0", "1", "7", "8", "8", "0", "9",
      "a", "2", "0", "6", ":", ":", "u", "p", "n", "p", ":", "r", "o", "o",
      "t", "d", "e", "v", "i", "c", "e">>

CRLF == <<"\r", "\n">>


\* net.IP.String() of host h
HostString(h) == StrHostPrefix \o <<Digits[h]>>

\* the responses of the model, by their lines. The layout is the one of the
\* response example quoted in ssdpResponseValid: status line, HOST,
\* LOCATION, SERVER, ST, USN, each ended by CRLF, and an empty line.
\*   status    200: "HTTP/1.1 200 OK", 404: "HTTP/1.1 404 Not Found"
\*   host      the HOST header is present
\*   location  none: no LOCATION header; spaced: "LOCATION: <url>";
\*             tight: "LOCATION:<url>"; lower: "location: <url>"
\*   scheme, locHost, port   the URL: <scheme>://10.0.0.<locHost>[:80]/description.xml
\*   server    bridge: the banner holds IpBridge; other: it does not
\*   st, usn   the ST header, the USN header is present
Responses ==
    [status : {"200", "404"}, host : BOOLEAN,
     location : {"none", "spaced", "tight", "lower"},
     scheme : {"http", "https"}, locHost : Hosts, port : BOOLEAN,
     server : {"bridge", "other"}, st : BOOLEAN, usn : BOOLEAN]

Line(present, text) == IF present THEN text \o CRLF ELSE <<>>

LocationUrl(r) ==
    (IF r.scheme = "http" THEN StrSchemeHttp ELSE StrSchemeHttps)
    \o HostString(r.locHost)
    \o (IF r.port THEN StrPort ELSE <<>>)
    \o StrPath

LocationName(r) ==
    CASE r.location = "spaced" -> StrLocationSpaced
      [] r.location = "tight" -> StrLocationTight
      [] r.location = "lower" -> StringsToLower(StrLocationSpaced)
      [] OTHER -> <<>>

\* the text of response r as it arrives in a datagram
ResponseText(r) ==
    Line(TRUE, IF r.status = "200" THEN StrStatusOK ELSE StrStatusNotFound)
    \o Line(r.host, StrHostHeader)
    \o Line(r.location # "none", LocationName(r) \o LocationUrl(r))
    \o Line(TRUE, IF r.server = "bridge" THEN StrServerBridge
                                         ELSE StrServerOther)
    \o Line(r.st, StrStHeader)
    \o Line(r.usn, StrUsnHeader)
    \o CRLF

\* buf := make([]byte, 8192); ReadFromUDP(buf); body := string(buf): the text
\* of the datagram followed by the zero bytes that fill the buffer
ZeroByte == "NUL"
StringOfBuf(text) == text \o <<ZeroByte, ZeroByte>>

\* ---- ssdpResponseValid ----



StrUsn == <<"u", "s", "n">>

StrSt == <<"s", "t">>

StrIpBridge == <<"i", "p", "b", "r", "i", "d", "g", "e">>

StrLocation == <<"l", "o", "c", "a", "t", "i", "o", "n">>

StrLocationSep == <<"l", "o", "c", "a", "t", "i", "o", "n", ":", " ">>

StrNewline == <<"\n">>


StrColon == <<":">>


\* ssdpResponseValid(body, origin): "accept" for (true, nil), "reject" for
\* (false, err), "panic" where s[1] indexes a slice of length 1 (index out of
\* range) because the separator does not occur
ssdpResponseValid(body, origin) ==
    IF ~StringsContains(body, StrStatusOK) THEN "reject"
    ELSE LET lower == StringsToLower(body) IN
    IF ~StringsContains(lower, StrUsn) \/ ~StringsContains(lower, StrSt)
       THEN "reject"
    ELSE IF ~StringsContains(lower, StrIpBridge) THEN "reject"
    ELSE IF ~StringsContains(lower, StrLocation) THEN "reject"
    ELSE LET s == StringsSplitAfter(lower, StrLocationSep) IN
    IF Len(s) < 2 THEN "panic"
    ELSE LET location == StringsSplit(s[2], StrNewline)[1]
             t == StringsSplitAfter(location, StrSchemeHttp) IN
    IF Len(t) < 2 THEN "panic"
    ELSE LET ip == StringsSplit(t[2], StrColon)[1] IN
    IF ip # origin THEN "reject" ELSE "accept"

\* ---- the datagrams upnpDiscover reads ----

\* the response of a bridge at host h
Genuine(h) ==
    [status |-> "200", host |-> TRUE, location |-> "spaced",
     scheme |-> "http", locHost |-> h, port |-> TRUE, server |-> "bridge",
     st |-> TRUE, usn |-> TRUE]
\* the response of another UPnP device at host h
NotABridge(h) == [Genuine(h) EXCEPT !.server = "other"]
\* responses sent by host h whose LOCATION names host g
Spoofed(h, g) == [Genuine(h) EXCEPT !.locHost = g]
SpoofedTight(h, g) == [Genuine(h) EXCEPT !.locHost = g, !.location = "tight"]

\* what host h may send in answer to the search
ProbeResponses(h) ==
    {Genuine(h), NotABridge(h)}
    \cup {Spoofed(h, g) : g \in Hosts \ {h}}
    \cup {SpoofedTight(h, g) : g \in Hosts \ {h}}

\* the datagrams the hosts of S may send: source address and text
Datagrams(S) ==
    UNION {{[src |-> h, response |-> r] : r \in ProbeResponses(h)} : h \in S}

\* valid, err := ssdpResponseValid(body, addr.IP) for every datagram
SsdpVerdict ==
    [d \in Datagrams(Addr \cup Hosts) |->
        ssdpResponseValid(StringOfBuf(ResponseText(d.response)),
                          HostString(d.src))]

\* ---- the revisions of DiscoverBridges ----

\* go nupnpDiscover(hostChannel) is commented out in src/discover.go
NupnpStarted == variant # "discover.go"
\* `scanStarted = true` precedes `if !scanStarted` except in part_005
ScanFlagPreset == variant # "part_005"

\* NewBridge(bridge, "") / Bridge{bridge, "", false}
NewBridge(ipAddr, username) == [IpAddr |-> ipAddr, Username |-> username]

\* bridges = append(bridges, *NewBridge(bridge, ""))
AppendBridgeReversed(bs, b) == <<NewBridge(b, "")>> \o bs
AppendBridge(bs, b) == Append(bs, NewBridge(b, ""))

\* if !discoverAllBridges { return bridges, nil }
EarlyReturnNever(all) == FALSE
EarlyReturn(all) == ~all

\* if !more && len(bridges) > 0 { return bridges, nil }; if !more { break loop }
ClosedOutcomeAlwaysFailed(bs) == "failed"
ClosedOutcome(bs) == IF Len(bs) > 0 THEN "nil" ELSE "failed"

\* case <-time.After: if len(bridges) > 0 { return bridges, nil }
TimeoutSuccessNever(bs) == FALSE
TimeoutSuccess(bs) == Len(bs) > 0

\* if !scanStarted { scanLocalNetwork(hostChannel) ... }
MayEscalateAlways(started) == TRUE
MayEscalate(started) == ~started

\* the three substrings validateBridges looks for in description.xml:
\* <deviceType>urn:schemas-upnp-org:device:Basic:1</deviceType>,
\* <manufacturer>Royal Philips Electronics</manufacturer>,
\* <modelURL>http://www.meethue.com</modelURL>
Fingerprints == {"deviceType", "manufacturer", "modelURL"}

\* the three `if !strings.Contains(str, ...) { continue }` tests on a body in
\* which the substrings of `found` occur
DescriptionValidAny(found) == TRUE
DescriptionValid(found) ==
    /\ "deviceType" \in found
    /\ "manufacturer" \in found
    /\ "modelURL" \in found

\* history of the values put on hostChannel, kept until DiscoverBridges returns
Emit(host) == emitted' = IF pc = "returned" THEN emitted ELSE emitted \cup {host}

\* the state in which DiscoverBridges has started its goroutines
RunInit ==
    /\ pc = "select"
    /\ bridges = <<>>
    /\ err = "none"
    /\ scanStarted = FALSE
    /\ scanHosts = <<>>
    /\ hostChannel = <<>>
    /\ hostClosed = FALSE
    /\ bridgeChannel = <<>>
    /\ bridgeClosed = FALSE
    /\ upc = "listen"
    /\ origins = <<>>
    /\ upending = 0
    /\ socketOpen = FALSE
    /\ readError = "none"
    /\ npc = IF NupnpStarted THEN "get" ELSE "absent"
    /\ manifest = <<>>
    /\ vpc = "range"
    /\ candidate = 0
    /\ panicked = FALSE
    /\ scanCount = 0
    /\ timeouts = 0
    /\ sent = <<>>
    /\ emitted = {}
    /\ confirmed = {}

\* a response that is never examined
NoResponse ==
    [status |-> "404", host |-> FALSE, location |-> "none", scheme |-> "http",
     locHost |-> MaxHost, port |-> FALSE, server |-> "other", st |-> FALSE,
     usn |-> FALSE]

\* no response is under examination
\* response r of host s is about to be examined
Examining(r, s) ==
    [response |-> r, sender |-> s, verdict |-> "none", readTick |-> FALSE,
     firstValid |-> <<>>, upnpSent |-> <<>>]

\* a run in which no response is examined
ProbeIdle == probe = "none"

\* nothing else is under observation
NoFetch == [fetch |-> "none", found |-> {}]

Callers == 1..MaxCallers
\* the zero time.Time of a Bridge that has sent no request lies further back
\* than any delay
ZeroTime == 0 - MaxDelay
\* no client.Do has returned yet
NoTime == 0 - 1

\* the empty string, as a username
NoName == 0
UserNames == 1..MaxUser
\* what bridge.do left to CreateUser: an error, or the decoded response array
NoResults == [kind |-> "none", entries |-> <<>>]

\* a Bridge as NewBridge and EnableRateLimiting leave it, with no request
\* under way: the fields of the struct, the holder of its lock (0: unlocked),
\* the position of every caller of do (cpc), the end of the time.Sleep of
\* the caller inside do (wakeAt), the position of the caller of CreateUser
\* (userPc), what do handed to CreateUser (results) and what CreateUser
\* returned (createErr); completedAt (when the latest client.Do returned)
\* and priorUsername (Username when CreateUser was called) are history
BridgeInUse(username, delay) ==
    [Username |-> username,
     delayBetweenRequests |-> delay,
     lastRequestTimestamp |-> ZeroTime,
     lock |-> 0,
     cpc |-> [c \in Callers |-> "idle"],
     wakeAt |-> 0,
     completedAt |-> NoTime,
     userPc |-> "idle",
     results |-> NoResults,
     createErr |-> "none",
     priorUsername |-> NoName]

\* history of an observed run: the manifest nupnpDiscover decoded, what it
\* sent on respondingHosts, the result of the latest description fetch, and
\* whether a fetch ended with an error
NothingObserved ==
    [decoded |-> <<>>, nupnpSent |-> <<>>, lastFetch |-> NoFetch,
     fetchFailed |-> FALSE]

\* DiscoverBridges enters its first wait when the run starts: when the
\* time.After of the current wait was called (armedAt), and as history when
\* the latest bridge and the one before it were received
TimerArmed == [armedAt |-> 0, lastEvent |-> 0, prevEvent |-> 0]

\* what a run keeps when it observes with o, or exercises the Bridge b, or
\* times its waits with tm; the clock starts at 0
Side(o, b, tm) ==
    [observed |-> o, now |-> 0, bridge |-> b, timer |-> tm, scene |-> "none"]

\* a run that is not observed, makes no request through a Bridge and does
\* not time its waits
AuxIdle == side = "none"

Init ==
    /\ variant \in Variants
    /\ discoverAllBridges \in BOOLEAN
    /\ RunInit
    /\ AuxIdle
    /\ ProbeIdle

\* ---- DiscoverBridges ----

\* case bridge, more := <-bridgeChannel, more = true
OrchReceiveStep ==
    /\ ~panicked
    /\ pc = "select"
    /\ bridgeChannel # <<>>
    /\ bridgeChannel' = Tail(bridgeChannel)
    /\ bridges' = AppendBridge(bridges, Head(bridgeChannel))
    /\ IF EarlyReturn(discoverAllBridges)
          THEN pc' = "returned" /\ err' = "nil"
          ELSE pc' = "select" /\ err' = err
    /\ UNCHANGED <<paramVars, probe, emitted, scanStarted, scanHosts, scanCount, timeouts,
                   hostChannel, hostClosed, bridgeClosed, upnpVars, nupnpVars,
                   validVars, panicked>>

OrchReceive == OrchReceiveStep /\ UNCHANGED side

\* case bridge, more := <-bridgeChannel, more = false
OrchReceiveClosed ==
    /\ ~panicked
    /\ pc = "select"
    /\ bridgeChannel = <<>>
    /\ bridgeClosed
    /\ pc' = "returned"
    /\ err' = ClosedOutcome(bridges)
    /\ UNCHANGED <<paramVars, side, probe, emitted, bridges, scanStarted, scanHosts, scanCount,
                   timeouts, hostChannel, hostClosed, bridgeChannel,
                   bridgeClosed, upnpVars, nupnpVars, validVars, panicked>>

\* case <-time.After(discoveryTimeout): the timer of this wait expires only
\* while no value and no close is ready on bridgeChannel. The call of
\* scanLocalNetwork starts with lanscan.ScanLinkLocal, whose result is drawn
\* here: the reachable hosts in any order (an error feeds nothing, like the
\* empty list).
OrchTimeoutStep ==
    /\ ~panicked
    /\ pc = "select"
    /\ bridgeChannel = <<>>
    /\ ~bridgeClosed
    /\ timeouts' = timeouts + 1
    /\ IF TimeoutSuccess(bridges)
          THEN /\ pc' = "returned"
               /\ err' = "nil"
               /\ UNCHANGED <<scanStarted, scanHosts, scanCount>>
          ELSE IF MayEscalate(IF ScanFlagPreset THEN TRUE ELSE scanStarted)
          THEN /\ pc' = "scanFeed"
               /\ err' = err
               /\ scanCount' = scanCount + 1
               /\ \E hosts \in DistinctSeqs(ScanAddr) : scanHosts' = hosts
               /\ UNCHANGED scanStarted
          ELSE /\ pc' = "returned"
               /\ err' = "failed"
               /\ scanStarted' = TRUE
               /\ UNCHANGED <<scanHosts, scanCount>>
    /\ UNCHANGED <<paramVars, probe, emitted, bridges, hostChannel, hostClosed, bridgeChannel,
                   bridgeClosed, upnpVars, nupnpVars, validVars, panicked>>

OrchTimeout == OrchTimeoutStep /\ UNCHANGED side

\* ---- scanLocalNetwork, running in the goroutine of DiscoverBridges ----

\* for _, host := range hosts { hostChannel <- host }
ScanSend ==
    /\ ~panicked
    /\ pc = "scanFeed"
    /\ scanHosts # <<>>
    /\ \/ /\ hostClosed
          /\ panicked' = TRUE
          /\ UNCHANGED <<hostChannel, scanHosts, emitted>>
       \/ /\ ~hostClosed
          /\ Len(hostChannel) < ChanCap
          /\ hostChannel' = Append(hostChannel, Head(scanHosts))
          /\ scanHosts' = Tail(scanHosts)
          /\ Emit(Head(scanHosts))
          /\ UNCHANGED panicked
    /\ UNCHANGED <<paramVars, side, probe, pc, bridges, err, scanStarted, scanCount,
                   timeouts, hostClosed, bridgeChannel, bridgeClosed,
                   upnpVars, nupnpVars, validVars>>

\* close(hostChannel); back in DiscoverBridges: scanStarted = true; continue
ScanClose ==
    /\ ~panicked
    /\ pc = "scanFeed"
    /\ scanHosts = <<>>
    /\ IF hostClosed
          THEN /\ panicked' = TRUE
               /\ UNCHANGED <<pc, scanStarted, hostClosed>>
          ELSE /\ hostClosed' = TRUE
               /\ scanStarted' = TRUE
               /\ pc' = "select"
               /\ UNCHANGED panicked
    /\ UNCHANGED <<paramVars, side, probe, emitted, bridges, err, scanHosts, scanCount, timeouts,
                   hostChannel, bridgeChannel, bridgeClosed, upnpVars,
                   nupnpVars, validVars>>

\* ---- upnpDiscover ----

\* socket, err := net.ListenUDP(...); if err != nil { return err }
\* socket.SetDeadline(...); defer socket.Close()
UpnpListen ==
    /\ ~panicked
    /\ upc = "listen"
    /\ \/ upc' = "failed" /\ socketOpen' = FALSE
       \/ upc' = "write" /\ socketOpen' = TRUE
    /\ UNCHANGED <<paramVars, side, probe, emitted, orchVars, hostChannel, hostClosed,
                   bridgeChannel, bridgeClosed, origins, upending, readError,
                   nupnpVars,
                   validVars, panicked>>

\* _, err = socket.WriteToUDP(...); if err != nil { return err }
UpnpWrite ==
    /\ ~panicked
    /\ upc = "write"
    /\ \/ upc' = "failed" /\ socketOpen' = FALSE
       \/ upc' = "read" /\ socketOpen' = TRUE
    /\ UNCHANGED <<paramVars, side, probe, emitted, orchVars, hostChannel, hostClosed,
                   bridgeChannel, bridgeClosed, origins, upending, readError,
                   nupnpVars,
                   validVars, panicked>>

\* if e, ok := err.(net.Error); !ok || !e.Timeout() { return err }; return nil
ReadErrorReturn(e) == IF e = "timeout" THEN "done" ELSE "failed"

\* a failed read that takes the whole process down instead of returning
UpnpReadErrorAborts ==
    /\ ~panicked
    /\ upc = "read"
    /\ \E e \in {"timeout", "other"} :
          /\ readError' = e
          /\ upc' = ReadErrorReturn(e)
    /\ socketOpen' = FALSE
    /\ panicked' = (upc' = "failed")
    /\ UNCHANGED <<paramVars, side, probe, emitted, orchVars, hostChannel, hostClosed,
                   bridgeChannel, bridgeClosed, origins, upending, nupnpVars,
                   validVars>>

\* _, addr, err := socket.ReadFromUDP(buf) fails: a timeout ends the probe
\* with nil, any other error ends it with the error; the deferred Close runs
UpnpReadError ==
    /\ ~panicked
    /\ upc = "read"
    /\ \E e \in {"timeout", "other"} :
          /\ readError' = e
          /\ upc' = ReadErrorReturn(e)
    /\ socketOpen' = FALSE
    /\ UNCHANGED <<paramVars, side, probe, emitted, orchVars, hostChannel, hostClosed,
                   bridgeChannel, bridgeClosed, origins, upending, nupnpVars,
                   validVars, panicked>>

\* datagram d is read: body := string(buf);
\* valid, err := ssdpResponseValid(body, addr.IP). A panic of the validator
\* ends the process; a response that is not valid and a duplicate origin are
\* skipped; a new origin is recorded and is sent next.
UpnpReceive(d) ==
    /\ ~panicked
    /\ upc = "read"
    /\ CASE SsdpVerdict[d] = "panic" ->
               /\ panicked' = TRUE
               /\ UNCHANGED <<origins, upending, upc>>
         [] SsdpVerdict[d] = "accept" /\ ~Contains(origins, d.src) ->
               /\ origins' = Append(origins, d.src)
               /\ upending' = d.src
               /\ upc' = "send"
               /\ UNCHANGED panicked
         [] OTHER -> UNCHANGED <<origins, upending, upc, panicked>>
    /\ UNCHANGED <<paramVars, side, orchVars, hostChannel, hostClosed,
                   bridgeChannel, bridgeClosed, socketOpen, readError, nupnpVars,
                   validVars, emitted>>

\* _, addr, err := socket.ReadFromUDP(buf) succeeds
UpnpRead ==
    \E d \in Datagrams(Addr) : UpnpReceive(d) /\ UNCHANGED probe

\* respondingHosts <- addr.IP.String()
UpnpSendStep ==
    /\ ~panicked
    /\ upc = "send"
    /\ \/ /\ hostClosed
          /\ panicked' = TRUE
          /\ UNCHANGED <<hostChannel, upc, upending, emitted>>
       \/ /\ ~hostClosed
          /\ Len(hostChannel) < ChanCap
          /\ hostChannel' = Append(hostChannel, upending)
          /\ upc' = "read"
          /\ upending' = 0
          /\ Emit(upending)
          /\ UNCHANGED panicked
    /\ UNCHANGED <<paramVars, side, orchVars, hostClosed, bridgeChannel,
                   bridgeClosed, origins, socketOpen, readError, nupnpVars, validVars>>

UpnpSend == UpnpSendStep /\ UNCHANGED probe

\* ---- nupnpDiscover ----

\* response, err := http.Get(nupnpEndpoint); if err != nil { return err };
\* err = json.NewDecoder(response.Body).Decode(&bridges);
\* if err != nil { return err }
NupnpGetFails ==
    /\ ~panicked
    /\ npc = "get"
    /\ npc' = "failed"
    /\ manifest' = <<>>
    /\ UNCHANGED <<paramVars, probe, emitted, orchVars, hostChannel,
                   hostClosed, bridgeChannel, bridgeClosed, upnpVars,
                   validVars, panicked>>

\* the registry answers and the body decodes to the manifest m
NupnpGetDecodes(m) ==
    /\ ~panicked
    /\ npc = "get"
    /\ npc' = "emit"
    /\ manifest' = m
    /\ UNCHANGED <<paramVars, probe, emitted, orchVars, hostChannel,
                   hostClosed, bridgeChannel, bridgeClosed, upnpVars,
                   validVars, panicked>>

NupnpGet ==
    /\ \/ NupnpGetFails
       \/ \E m \in SeqsUpTo(Addr, MaxManifest) : NupnpGetDecodes(m)
    /\ UNCHANGED side

\* for _, bridge := range bridges: the record the loop is at
NextRecordLast(m) == m[Len(m)]
NextRecord(m) == Head(m)

\* for _, bridge := range bridges { respondingHosts <- bridge.IPAddr }
NupnpSendStep ==
    /\ ~panicked
    /\ npc = "emit"
    /\ manifest # <<>>
    /\ \/ /\ hostClosed
          /\ panicked' = TRUE
          /\ UNCHANGED <<hostChannel, manifest, emitted>>
       \/ /\ ~hostClosed
          /\ Len(hostChannel) < ChanCap
          /\ hostChannel' = Append(hostChannel, NextRecord(manifest))
          /\ manifest' = Tail(manifest)
          /\ Emit(NextRecord(manifest))
          /\ UNCHANGED panicked
    /\ UNCHANGED <<paramVars, probe, orchVars, hostClosed, bridgeChannel,
                   bridgeClosed, upnpVars, npc, validVars>>

NupnpSend == NupnpSendStep /\ UNCHANGED side

\* return nil
NupnpReturn ==
    /\ ~panicked
    /\ npc = "emit"
    /\ manifest = <<>>
    /\ npc' = "done"
    /\ UNCHANGED <<paramVars, side, probe, emitted, orchVars, hostChannel, hostClosed,
                   bridgeChannel, bridgeClosed, upnpVars, manifest, validVars,
                   panicked>>

\* ---- validateBridges ----

\* a candidate is forwarded when the fetch yields a body that passes the
\* three strings.Contains tests
ForwardTwoOfThree(fetch, found) == fetch = "body" /\ Cardinality(found) >= 2
Forward(fetch, found) == fetch = "body" /\ DescriptionValid(found)

\* where validateBridges is after a candidate it does not forward: `continue`
\* takes it back to the range, unless http.Get never returned
ResumeStopsOnError(fetch) == IF fetch = "body" THEN "range" ELSE "hung"
Resume(fetch) == IF fetch = "hang" THEN "hung" ELSE "range"

\* for candidate := range candidates: the next candidate is taken and
\* http.Get(".../description.xml") and ioutil.ReadAll run on it. The fetch
\* fails ("error"), never returns ("hang": http.Get uses the default client,
\* which has no timeout) or yields a body ("body") in which the fingerprints
\* of `found` occur. An error or a body that fails a strings.Contains test
\* skips the candidate, a body that passes them goes on to the send.
ValidateFetch(fetch, found) ==
    /\ ~panicked
    /\ vpc = "range"
    /\ hostChannel # <<>>
    /\ hostChannel' = Tail(hostChannel)
    /\ vpc' = IF Forward(fetch, found) THEN "send" ELSE Resume(fetch)
    /\ candidate' = IF vpc' = "range" THEN 0 ELSE Head(hostChannel)
    /\ confirmed' = IF fetch = "body" /\ found = Fingerprints
                         /\ pc # "returned"
                       THEN confirmed \cup {Head(hostChannel)}
                       ELSE confirmed
    /\ UNCHANGED <<paramVars, probe, emitted, orchVars, hostClosed,
                   bridgeChannel, bridgeClosed, upnpVars, nupnpVars, sent,
                   panicked>>

\* what a description fetch can yield
FetchResults ==
    {[fetch |-> "error", found |-> {}], [fetch |-> "hang", found |-> {}]}
    \cup [fetch : {"body"}, found : SUBSET Fingerprints]

ValidateCandidate ==
    /\ \E r \in FetchResults : ValidateFetch(r.fetch, r.found)
    /\ UNCHANGED side

\* bridges <- candidate
ValidateSend ==
    /\ ~panicked
    /\ vpc = "send"
    /\ Len(bridgeChannel) < ChanCap
    /\ bridgeChannel' = Append(bridgeChannel, candidate)
    /\ sent' = IF pc = "returned" THEN sent ELSE Append(sent, candidate)
    /\ vpc' = "range"
    /\ candidate' = 0
    /\ UNCHANGED <<paramVars, side, probe, emitted, orchVars, hostChannel, hostClosed,
                   bridgeClosed, upnpVars, nupnpVars, confirmed, panicked>>

\* the range loop ends when candidates is closed and drained; close(bridges)
ValidateClose ==
    /\ ~panicked
    /\ vpc = "range"
    /\ hostChannel = <<>>
    /\ hostClosed
    /\ bridgeClosed' = TRUE
    /\ vpc' = "done"
    /\ UNCHANGED <<paramVars, side, probe, emitted, orchVars, hostChannel, hostClosed,
                   bridgeChannel, upnpVars, nupnpVars, candidate, sent,
                   confirmed, panicked>>

\* ---- the run ----
Orchestrator == OrchReceive \/ OrchReceiveClosed \/ OrchTimeout \/ ScanSend \/ ScanClose
Upnp == UpnpListen \/ UpnpWrite \/ UpnpReadError \/ UpnpRead \/ UpnpSend
Nupnp == NupnpGet \/ NupnpSend \/ NupnpReturn
Validate == ValidateCandidate \/ ValidateSend \/ ValidateClose

Next ==
    \/ OrchReceive
    \/ OrchReceiveClosed
    \/ OrchTimeout
    \/ ScanSend
    \/ ScanClose
    \/ UpnpListen
    \/ UpnpWrite
    \/ UpnpReadError
    \/ UpnpRead
    \/ UpnpSend
    \/ NupnpGet
    \/ NupnpSend
    \/ NupnpReturn
    \/ ValidateCandidate
    \/ ValidateSend
    \/ ValidateClose

Spec == Init /\ [][Next]_vars

\* every goroutine that can take a step eventually takes one; the timer of
\* time.After is part of the select of DiscoverBridges
FairSpec ==
    /\ Spec
    /\ WF_vars(Orchestrator)
    /\ WF_vars(Upnp)
    /\ WF_vars(Nupnp)
    /\ WF_vars(Validate)

TypeOK ==
    /\ variant \in Variants
    /\ discoverAllBridges \in BOOLEAN
    /\ pc \in {"select", "scanFeed", "returned"}
    /\ err \in {"none", "nil", "failed"}
    /\ Len(hostChannel) <= ChanCap
    /\ Len(bridgeChannel) <= ChanCap
    /\ scanCount \in 0..2
    /\ timeouts \in 0..3

\* ---- properties of DiscoverBridges ----

Returned == pc = "returned"
Addresses(bs) == [i \in 1..Len(bs) |-> bs[i].IpAddr]
NoRepeat(s) == \A i, j \in 1..Len(s) : i # j => s[i] # s[j]

\* C1: the list DiscoverBridges returns holds no address more than once,
\* whatever the sources emitted and however their steps interleave.
C1_NoDuplicateAddress == Returned => NoRepeat(Addresses(bridges))

\* C2: DiscoverBridges never waits on anything that is not bounded by a
\* timeout, so every invocation returns: as long as it has not returned (the
\* process is alive and no description fetch hangs), a step is possible. A
\* run that reaches a state violating this never returns.
C2_NeverBlockedWithoutTimeout ==
    (~Returned /\ ~panicked /\ vpc # "hung") => ENABLED Next

\* C3: DiscoverBridges returns either a non-empty list with a nil error or an
\* empty list with the error "Bridge discovery failed", nothing else.
C3_BinaryOutcome ==
    Returned => \/ Len(bridges) > 0 /\ err = "nil"
                \/ Len(bridges) = 0 /\ err = "failed"

C3_Witness == Returned /\ Len(bridges) = 0 /\ err = "failed" /\ bridgeClosed

\* C4: in first-match mode the step that receives the first confirmed bridge
\* is the step that returns, and the returned list is exactly that bridge.
C4_FirstMatchReturnsAtOnce ==
    [][(~discoverAllBridges /\ pc = "select" /\ bridgeChannel # <<>>
        /\ bridgeChannel' = Tail(bridgeChannel))
       => (pc' = "returned" /\ err' = "nil"
           /\ bridges' = <<NewBridge(Head(bridgeChannel), "")>>)]_vars

C4_Witness ==
    Returned /\ ~discoverAllBridges /\ err = "nil" /\ Len(bridges) = 1

\* C5: in exhaustive mode a successful return hands back every bridge that
\* arrived on the results stream up to the return, in arrival order.
C5_ExhaustiveReturnsAllInOrder ==
    [][(discoverAllBridges /\ pc = "select" /\ pc' = "returned"
        /\ err' = "nil")
       => Addresses(bridges') = sent]_vars

C5_Witness ==
    /\ Returned /\ discoverAllBridges /\ err = "nil"
    /\ Len(bridges) = 2 /\ bridges[1].IpAddr > bridges[2].IpAddr

\* C6: when the first wait times out with no bridge accumulated, the subnet
\* scanner is invoked and DiscoverBridges goes on waiting.
C6_FirstTimeoutEscalates ==
    [][(pc = "select" /\ timeouts = 0 /\ timeouts' = 1 /\ Len(bridges) = 0)
       => (scanCount' = 1 /\ pc' # "returned")]_vars

\* C7: "Bridge discovery failed" is returned only in runs in which the subnet
\* scanner was invoked.
C7_FailureOnlyAfterScan == (Returned /\ err = "failed") => scanCount > 0

\* C8: the subnet scanner is invoked at most once in a run.
C8_ScanAtMostOnce == scanCount <= 1

C8_Witness ==
    Returned /\ err = "failed" /\ scanCount = 1 /\ timeouts = 2

\* C10: the subnet scanner is invoked only by a timeout expiry at which the
\* accumulated bridge list is empty.
C10_ScanOnlyFromEmptyTimeout ==
    [][scanCount' > scanCount
       => (Len(bridges) = 0 /\ pc = "select" /\ timeouts' = timeouts + 1)]_vars

C10_Witness ==
    scanCount = 1 /\ Returned /\ err = "nil" /\ discoverAllBridges

\* bridgeChannel is closed only after scanLocalNetwork closed hostChannel, and
\* DiscoverBridges is back in its select only with scanStarted set: the select
\* never sees the stream closed while scanStarted is false
StreamClosesOnlyAfterScan ==
    /\ bridgeClosed => (scanCount > 0 /\ hostClosed)
    /\ (pc = "select" /\ bridgeClosed) => scanStarted

\* ---- the background tasks ----

ProbersFinished == upc \in {"done", "failed"} /\ npc \in {"done", "failed"}
CandidatesProcessed == hostChannel = <<>> /\ vpc = "range"
TasksTerminated ==
    /\ upc \in {"done", "failed"}
    /\ npc \in {"done", "failed", "absent"}
    /\ vpc = "done"

\* C11: once both probers have finished and validateBridges has processed
\* every candidate they emitted, the results stream closes: bridgeChannel is
\* closed or validateBridges is about to close it.
C11_StreamClosesWhenProbersFinish ==
    (ProbersFinished /\ CandidatesProcessed /\ ~panicked)
       => (bridgeClosed \/ ENABLED ValidateClose)

\* C12: after DiscoverBridges has returned, no background task stays blocked
\* forever: when nothing can move any more, the probers and validateBridges
\* have terminated and the multicast socket is closed.
C12_TasksEndAfterReturn ==
    (Returned /\ ~panicked /\ vpc # "hung" /\ ~ENABLED Next)
       => (TasksTerminated /\ ~socketOpen)

\* a probe ends with an error: ListenUDP, WriteToUDP or ReadFromUDP failed in
\* upnpDiscover, or http.Get or the JSON decoding failed in nupnpDiscover
UpnpFails == upc # "failed" /\ upc' = "failed"
NupnpFails == npc # "failed" /\ npc' = "failed"

\* C13: the failure of one probe never aborts the run. The step in which a
\* probe fails changes nothing but that probe: no panic, DiscoverBridges and
\* validateBridges stay where they are, both channels keep their content, and
\* the other probe keeps its position and everything it has still to emit.
C13_ProbeFailureDoesNotAbort ==
    [][(UpnpFails \/ NupnpFails)
       => /\ ~panicked'
          /\ UNCHANGED <<orchVars, validVars, hostChannel, hostClosed,
                         bridgeChannel, bridgeClosed>>
          /\ UpnpFails => UNCHANGED nupnpVars
          /\ NupnpFails => UNCHANGED upnpVars]_vars

\* the multicast probe failed before it emitted anything and the run still
\* returned the bridge the cloud registry listed
C13_Witness ==
    /\ upc = "failed" /\ origins = <<>> /\ npc = "done" /\ scanCount = 0
    /\ Returned /\ err = "nil" /\ Len(bridges) = 1

\* C15: every bridge DiscoverBridges returns has an empty Username and an
\* address that one of the three sources emitted and whose description held
\* all three fingerprints: nothing reaches the result unconfirmed.
C15_ReturnedBridgesConfirmed ==
    Returned =>
       \A i \in 1..Len(bridges) :
          /\ bridges[i].Username = ""
          /\ bridges[i].IpAddr \in emitted
          /\ bridges[i].IpAddr \in confirmed

\* two candidates were emitted, one description lacked a fingerprint, and the
\* run returned the other one alone
C15_Witness ==
    /\ Returned /\ err = "nil" /\ Len(bridges) = 1
    /\ Cardinality(emitted) = 2 /\ confirmed = {bridges[1].IpAddr}
    /\ hostChannel = <<>> /\ vpc = "range"

\* C14: every run starts the multicast prober and the cloud registry prober.
C14_BothProbersStarted == upc # "absent" /\ npc # "absent"

\* ---- ssdpResponseValid, one response at a time ----

\* any response of the model, received from any host
InitSsdp ==
    /\ variant = "part_006"
    /\ discoverAllBridges = FALSE
    /\ RunInit
    /\ AuxIdle
    /\ \E r \in Responses, s \in Hosts : probe = Examining(r, s)

\* valid, err := ssdpResponseValid(body, addr.IP)
SsdpValidate ==
    /\ sender \in Hosts
    /\ verdict = "none"
    /\ probe' = [probe EXCEPT !.verdict =
                     ssdpResponseValid(StringOfBuf(ResponseText(response)),
                                       HostString(sender))]
    /\ UNCHANGED <<paramVars, side, orchVars, hostChannel, hostClosed,
                   bridgeChannel, bridgeClosed, upnpVars, nupnpVars,
                   validVars, emitted, panicked>>

NextSsdp == SsdpValidate

SpecSsdp == InitSsdp /\ [][NextSsdp]_vars

\* the four checks of the validator, read off the lines of the response
StatusIsSuccess(r) == r.status = "200"
UsnAndStPresent(r) == r.usn /\ r.st
VendorTokenInBanner(r) == r.server = "bridge"
LocationHostIs(r, h) == r.location # "none" /\ r.locHost = h

FourChecks(r, h) ==
    /\ StatusIsSuccess(r)
    /\ UsnAndStPresent(r)
    /\ VendorTokenInBanner(r)
    /\ LocationHostIs(r, h)

\* C16: ssdpResponseValid accepts a response from a host if and only if the
\* four checks hold: success status line, USN and ST fields both present,
\* vendor token in the server banner, LOCATION whose URL host is the sender.
C16_AcceptsIffFourChecks ==
    verdict # "none" => (verdict = "accept" <=> FourChecks(response, sender))

\* C17: ssdpResponseValid returns pass or fail for every response text and
\* never panics.
C17_ValidatorNeverPanics == verdict # "panic"

\* C18: a response whose LOCATION is "LOCATION: http://<sender>/description.xml",
\* without a port, and that is otherwise valid, is accepted.
C18_PortlessLocationAccepted ==
    (/\ verdict # "none"
     /\ FourChecks(response, sender)
     /\ response.location = "spaced"
     /\ response.scheme = "http"
     /\ ~response.port)
       => verdict = "accept"

\* ---- upnpDiscover under observation ----

Range(s) == {s[i] : i \in 1..Len(s)}
IsPrefix(s, t) == Len(s) <= Len(t) /\ SubSeq(t, 1, Len(s)) = s

\* a run of src/discover.go, whose only prober is upnpDiscover
InitProbe ==
    /\ variant = "discover.go"
    /\ discoverAllBridges \in BOOLEAN
    /\ RunInit
    /\ AuxIdle
    /\ probe = Examining(NoResponse, 0)

\* UpnpRead with the hosts of Hosts answering; the datagram, its verdict and
\* the order of the first valid datagrams are recorded
ProbeRead ==
    \E d \in Datagrams(Hosts) :
       /\ UpnpReceive(d)
       /\ probe' = [probe EXCEPT
                       !.response = d.response,
                       !.sender = d.src,
                       !.verdict = SsdpVerdict[d],
                       !.readTick = ~readTick,
                       !.firstValid =
                           IF SsdpVerdict[d] = "accept" /\ d.src \notin Range(firstValid)
                              THEN Append(firstValid, d.src)
                              ELSE firstValid]

\* UpnpSend; the value put on respondingHosts is recorded
ProbeSend ==
    /\ UpnpSendStep
    /\ probe' = [probe EXCEPT !.upnpSent =
                     IF hostChannel' # hostChannel
                        THEN Append(upnpSent, upending)
                        ELSE upnpSent]

NextProbe ==
    \/ OrchReceive
    \/ OrchTimeout
    \/ UpnpListen
    \/ UpnpWrite
    \/ UpnpReadError
    \/ ProbeRead
    \/ ProbeSend
    \/ ValidateCandidate
    \/ ValidateSend

SpecProbe == InitProbe /\ [][NextProbe]_vars

\* the response read last names in its LOCATION a host other than its sender
LocationMismatch == response.location # "none" /\ response.locHost # sender

\* C19: a response whose LOCATION host differs from the source address of
\* its datagram is discarded: the read changes nothing in upnpDiscover, puts
\* nothing on the candidate channel, and the process goes on.
C19_MismatchDiscarded ==
    [][(readTick' # readTick /\ LocationMismatch')
       => (/\ ~panicked'
           /\ UNCHANGED <<upc, origins, upending, hostChannel, upnpSent>>)]_vars

\* C20: within one run of upnpDiscover each source address is sent on the
\* candidate channel at most once, and the candidates are sent in the order
\* in which their first valid datagram was received.
C20_EachOriginOnceInReceiptOrder ==
    /\ NoRepeat(upnpSent)
    /\ IsPrefix(upnpSent, firstValid)

\* host 2 answered first, then host 1, both were sent, and the datagram read
\* last is one more valid response of host 2
C20_Witness ==
    /\ upnpSent = <<2, 1>>
    /\ sender = 2 /\ verdict = "accept"
    /\ upc = "read" /\ ~panicked

\* the read of this step failed with error e
ReadFails(e) == readError = "none" /\ readError' = e
\* this step read a response that fails one of the four checks, or one more
\* response of a host that answered validly before
ReadsInvalidOrDuplicate ==
    /\ readTick' # readTick
    /\ \/ ~FourChecks(response', sender')
       \/ sender' \in Range(firstValid)

\* C21: upnpDiscover returns nil when a read fails with a timeout, returns
\* the error when a read fails otherwise, does not end on an invalid or
\* duplicate response, and has closed the socket whenever it has returned.
C21_ProberExits ==
    [][/\ ReadFails("timeout") => upc' = "done"
       /\ ReadFails("other") => upc' = "failed"
       /\ ReadsInvalidOrDuplicate => (upc' = "read" /\ ~panicked')
       /\ upc' \in {"done", "failed"} => ~socketOpen']_vars

\* ---- nupnpDiscover under observation ----

\* DiscoverBridges(true) of part_006, which starts both probers: the run
\* lasts until the timeout, so that the registry prober is observed to its
\* end
InitRegistry ==
    /\ variant = "part_006"
    /\ discoverAllBridges = TRUE
    /\ RunInit
    /\ ProbeIdle
    /\ side = Side(NothingObserved, "none", "none")

\* NupnpGet with manifests over the hosts of Hosts; the manifest is recorded
RegistryGet ==
    \/ NupnpGetFails /\ UNCHANGED side
    \/ \E m \in SeqsUpTo(Hosts, MaxHost) :
          /\ NupnpGetDecodes(m)
          /\ side' = [side EXCEPT !.observed.decoded = m]

\* NupnpSend; the value put on respondingHosts is recorded
RegistrySend ==
    /\ NupnpSendStep
    /\ side' =
          IF hostChannel' # hostChannel
             THEN [side EXCEPT
                      !.observed.nupnpSent =
                          Append(@, hostChannel'[Len(hostChannel')])]
             ELSE side

NextRegistry ==
    \/ OrchReceive
    \/ OrchTimeout
    \/ UpnpListen
    \/ UpnpWrite
    \/ UpnpReadError
    \/ UpnpRead
    \/ UpnpSend
    \/ RegistryGet
    \/ RegistrySend
    \/ NupnpReturn
    \/ ValidateCandidate
    \/ ValidateSend

SpecRegistry == InitRegistry /\ [][NextRegistry]_vars

\* C22: nupnpDiscover returns nil only after it has emitted the address of
\* every record of the decoded manifest, in manifest order; it returns an
\* error only without having emitted anything; what it has emitted so far is
\* always the front of the manifest.
C22_RegistryAllOrNothing ==
    /\ IsPrefix(observed.nupnpSent, observed.decoded)
    /\ npc = "done" => observed.nupnpSent = observed.decoded
    /\ npc = "failed" => observed.nupnpSent = <<>>

\* a manifest of two records was emitted, the higher address first
C22_Witness == npc = "done" /\ observed.nupnpSent = <<2, 1>>

\* ---- validateBridges under observation ----

\* ValidateCandidate; the result of the fetch is recorded
ConfirmFetch ==
    /\ \E r \in FetchResults :
          /\ ValidateFetch(r.fetch, r.found)
          /\ side' =
                [side EXCEPT !.observed.lastFetch = r,
                             !.observed.fetchFailed = (@ \/ r.fetch = "error")]

NextConfirm ==
    \/ OrchReceive
    \/ OrchTimeout
    \/ UpnpListen
    \/ UpnpWrite
    \/ UpnpReadError
    \/ UpnpRead
    \/ UpnpSend
    \/ NupnpGet
    \/ NupnpSend
    \/ NupnpReturn
    \/ ConfirmFetch
    \/ ValidateSend

\* a run of part_006: candidates come from both probers
InitConfirm ==
    /\ variant = "part_006"
    /\ discoverAllBridges \in BOOLEAN
    /\ RunInit
    /\ ProbeIdle
    /\ side = Side(NothingObserved, "none", "none")

SpecConfirm == InitConfirm /\ [][NextConfirm]_vars

\* this step takes a candidate from hostChannel and fetches its description
FetchStep ==
    vpc = "range" /\ hostChannel # <<>> /\ hostChannel' = Tail(hostChannel)
\* the candidate taken in this step goes on to `bridges <- candidate`
Forwarded == vpc' = "send" /\ candidate' = Head(hostChannel)

\* C23: validateBridges forwards a candidate whose description was fetched
\* if and only if the body holds all three fingerprints; a body that lacks
\* one of them is not forwarded.
C23_ForwardIffAllThree ==
    [][(FetchStep /\ observed'.lastFetch.fetch = "body")
       => (Forwarded <=> observed'.lastFetch.found = Fingerprints)]_vars

\* a body with two of the three fingerprints was fetched and the candidate
\* was skipped
C23_Witness ==
    /\ observed.lastFetch.fetch = "body"
    /\ Cardinality(observed.lastFetch.found) = 2
    /\ vpc = "range" /\ candidate = 0 /\ bridgeChannel = <<>> /\ sent = <<>>

\* C24: a candidate whose description fetch fails is dropped without being
\* forwarded, and validateBridges is back at the range for the next one.
C24_FetchErrorSkips ==
    [][(FetchStep /\ observed'.lastFetch.fetch = "error")
       => (/\ vpc' = "range"
           /\ candidate' = 0
           /\ UNCHANGED <<bridgeChannel, bridgeClosed, sent, panicked>>)]_vars

\* a fetch failed, a later candidate was confirmed and was returned
C24_Witness ==
    /\ observed.fetchFailed
    /\ observed.lastFetch = [fetch |-> "body", found |-> Fingerprints]
    /\ Returned /\ err = "nil" /\ Len(bridges) = 1

\* C25: a description fetch that never completes does not keep the
\* candidates queued behind it from being confirmed: while one fetch hangs,
\* the next candidate on hostChannel can still be taken.
C25_HangDoesNotBlockQueue ==
    (vpc = "hung" /\ hostChannel # <<>> /\ ~panicked) => ENABLED ConfirmFetch

\* ---- Bridge.do with rate limiting ----

\* NewBridge, then EnableRateLimiting(d); the callers share the Bridge
InitRate ==
    /\ variant = "discover.go"
    /\ discoverAllBridges = FALSE
    /\ RunInit
    /\ ProbeIdle
    /\ \E d \in 0..MaxDelay :
          side = Side("none", BridgeInUse(NoName, d), "none")

\* time passes
Tick ==
    /\ now < MaxTime
    /\ side' = [side EXCEPT !.now = @ + 1]
    /\ UNCHANGED discoveryVars

\* bridge.lock.Lock(); defer bridge.lock.Unlock()
DoLock(c) ==
    /\ bridge.cpc[c] = "idle"
    /\ bridge.lock = 0
    /\ side' = [side EXCEPT !.bridge.lock = c, !.bridge.cpc[c] = "check"]
    /\ UNCHANGED discoveryVars

\* nextRequest := bridge.lastRequestTimestamp.Add(bridge.delayBetweenRequests)
NextRequest(last, delay) == last + delay
\* if now.Before(nextRequest)
MustWaitNever(t, nextRequest) == FALSE
MustWait(t, nextRequest) == t < nextRequest

\* if bridge.delayBetweenRequests > 0 { ... time.Sleep(time.Until(nextRequest)) }
DoCheck(c) ==
    /\ bridge.cpc[c] = "check"
    /\ LET nextRequest ==
               NextRequest(bridge.lastRequestTimestamp,
                           bridge.delayBetweenRequests)
       IN  IF bridge.delayBetweenRequests > 0 /\ MustWait(now, nextRequest)
              THEN side' = [side EXCEPT !.bridge.cpc[c] = "sleep",
                                        !.bridge.wakeAt = nextRequest]
              ELSE side' = [side EXCEPT !.bridge.cpc[c] = "prepare"]
    /\ UNCHANGED discoveryVars

\* time.Sleep returns, not before the duration has passed
DoWake(c) ==
    /\ bridge.cpc[c] = "sleep"
    /\ now >= bridge.wakeAt
    /\ side' = [side EXCEPT !.bridge.cpc[c] = "prepare"]
    /\ UNCHANGED discoveryVars

\* json.Marshal and http.NewRequest: an error returns it (the deferred Unlock
\* runs), otherwise bridge.client.Do(httpRequest) sends the request
DoSend(c) ==
    /\ bridge.cpc[c] = "prepare"
    /\ \/ side' = [side EXCEPT !.bridge.cpc[c] = "idle", !.bridge.lock = 0,
                               !.bridge.wakeAt = 0]
       \/ side' = [side EXCEPT !.bridge.cpc[c] = "inflight"]
    /\ UNCHANGED discoveryVars

\* client.Do returns (response, error or client timeout);
\* bridge.lastRequestTimestamp = time.Now(); the response is read and decoded
\* and do returns, which unlocks
DoComplete(c) ==
    /\ bridge.cpc[c] = "inflight"
    /\ side' = [side EXCEPT !.bridge.lastRequestTimestamp = now,
                            !.bridge.completedAt = now,
                            !.bridge.cpc[c] = "idle",
                            !.bridge.lock = 0,
                            !.bridge.wakeAt = 0]
    /\ UNCHANGED discoveryVars

NextRate ==
    \/ Tick
    \/ \E c \in Callers : DoLock(c)
    \/ \E c \in Callers : DoCheck(c)
    \/ \E c \in Callers : DoWake(c)
    \/ \E c \in Callers : DoSend(c)
    \/ \E c \in Callers : DoComplete(c)

SpecRate == InitRate /\ [][NextRate]_vars

\* caller c sends its HTTP request in this step
Sends(c) == bridge.cpc[c] = "prepare" /\ bridge'.cpc[c] = "inflight"

\* C26: with rate limiting enabled, every HTTP request on the Bridge is sent
\* no earlier than the delay after the previous request completed, whichever
\* caller issues it; a caller that has to wait sleeps and then goes on to
\* send, and at most one caller is inside do.
C26_RequestsSpaced ==
    [][\A c \in Callers :
          /\ (/\ Sends(c)
              /\ bridge.delayBetweenRequests > 0
              /\ bridge.completedAt # NoTime)
                => now >= bridge.completedAt + bridge.delayBetweenRequests
          /\ (bridge.cpc[c] = "sleep" /\ bridge'.cpc[c] # "sleep")
                => bridge'.cpc[c] = "prepare"
          /\ bridge'.cpc[c] # "idle" => bridge'.lock = c]_vars

\* a request issued right after the previous one completed has waited and is
\* sent exactly one delay later, while the other caller waits for the lock
C26_Witness ==
    \E c \in Callers :
       /\ bridge.cpc[c] = "inflight"
       /\ bridge.delayBetweenRequests = MaxDelay
       /\ bridge.completedAt # NoTime
       /\ now = bridge.completedAt + bridge.delayBetweenRequests
       /\ bridge.wakeAt = now

\* ---- Bridge.CreateUser ----

\* one element of the response array: {"success": {"username": u}}, a success
\* entry without a username, or {"error": {...}}
Entries ==
    [key : {"success"}, username : UserNames \cup {NoName}]
        \cup {[key |-> "error", username |-> NoName]}
\* what bridge.do can hand back: an error (transport, read or decode), or a
\* decoded array
DoResults ==
    {[kind |-> "error", entries |-> <<>>]}
        \cup {[kind |-> "array", entries |-> e] : e \in SeqsUpTo(Entries, MaxEntries)}

\* value["success"]["username"]: a missing key yields the empty string
SuccessUsername(value) ==
    IF value.key = "success" THEN value.username ELSE NoName

\* a Bridge with some Username, as NewBridge(ip, username) makes it
InitUser ==
    /\ variant = "discover.go"
    /\ discoverAllBridges = FALSE
    /\ RunInit
    /\ ProbeIdle
    /\ \E u \in UserNames \cup {NoName} :
          side = Side("none", BridgeInUse(u, 0), "none")

\* err := bridge.do("POST", bridge.baseURL(), &params, &results)
CreateUserDo ==
    /\ bridge.userPc \in {"idle", "returned"}
    /\ \E r \in DoResults :
          side' = [side EXCEPT !.bridge.priorUsername = bridge.Username,
                               !.bridge.results = r,
                               !.bridge.createErr = "none",
                               !.bridge.userPc = "do"]
    /\ UNCHANGED discoveryVars

\* if err != nil { return err }; value := results[0];
\* bridge.Username = value["success"]["username"]; return nil
CreateUserReturn ==
    /\ bridge.userPc = "do"
    /\ IF bridge.results.kind = "error"
          THEN side' = [side EXCEPT !.bridge.createErr = "err",
                                    !.bridge.userPc = "returned"]
          ELSE IF bridge.results.entries = <<>>
                  THEN side' = [side EXCEPT !.bridge.userPc = "panicked"]
                  ELSE side' =
                          [side EXCEPT
                              !.bridge.Username =
                                  SuccessUsername(bridge.results.entries[1]),
                              !.bridge.createErr = "nil",
                              !.bridge.userPc = "returned"]
    /\ UNCHANGED discoveryVars

NextUser == CreateUserDo \/ CreateUserReturn

SpecUser == InitUser /\ [][NextUser]_vars

\* the bridge answered with a success entry that carries a username
Registered ==
    /\ bridge.results.kind = "array"
    /\ bridge.results.entries # <<>>
    /\ bridge.results.entries[1].key = "success"
    /\ bridge.results.entries[1].username # NoName

\* C27: CreateUser returns nil only when the bridge answered with a success
\* entry carrying a username, and then Username is that username; when the
\* registration does not succeed it returns an error, does not panic and
\* leaves Username as it was.
C27_CreateUserContract ==
    /\ bridge.userPc # "panicked"
    /\ (bridge.userPc = "returned" /\ bridge.createErr = "nil")
          => (/\ Registered
              /\ bridge.Username = bridge.results.entries[1].username)
    /\ (bridge.userPc = "returned" /\ ~Registered)
          => (/\ bridge.createErr = "err"
              /\ bridge.Username = bridge.priorUsername)

\* the timer of the current wait expires in this step
TimeoutExpires == pc = "select" /\ timeouts' = timeouts + 1
\* the select finds the results stream closed in this step
StreamCloseSeen ==
    pc = "select" /\ bridgeChannel = <<>> /\ bridgeClosed /\ pc' # pc

\* C28: in exhaustive mode, once a bridge has been accumulated, the first
\* timeout expiry or stream close ends DiscoverBridges with success and the
\* accumulated list unchanged; from the first bridge on no step invokes the
\* scanner and none sets the failure.
C28_ExhaustiveEndsWithSuccess ==
    [][(discoverAllBridges /\ Len(bridges) >= 1)
       => /\ (TimeoutExpires \/ StreamCloseSeen)
                => (pc' = "returned" /\ err' = "nil" /\ bridges' = bridges)
          /\ scanCount' = scanCount
          /\ pc' # "scanFeed"
          /\ err' # "failed"]_vars

\* an exhaustive run that accumulated two bridges was ended by a timeout
C28_Witness ==
    /\ Returned /\ discoverAllBridges /\ err = "nil"
    /\ Len(bridges) = 2 /\ timeouts = 1 /\ ~bridgeClosed /\ scanCount = 0

\* ---- the wait timeout of DiscoverBridges ----

InitTimer ==
    /\ variant = "part_006"
    /\ discoverAllBridges \in BOOLEAN
    /\ RunInit
    /\ ProbeIdle
    /\ side = Side("none", "none", TimerArmed)

\* `case <-time.After(discoveryTimeout)` is evaluated when the select is
\* entered: every iteration of the loop starts a new timer
RearmNever(armed, t) == armed
Rearm(armed, t) == t

\* the timer started at `armed` has fired at t
TimerExpired(armed, t) == t >= armed + discoveryTimeout

\* a bridge is received; the loop goes round and waits anew
TimedReceive ==
    /\ OrchReceiveStep
    /\ side' = [side EXCEPT !.timer =
                    [armedAt |-> Rearm(timer.armedAt, now),
                     lastEvent |-> now,
                     prevEvent |-> timer.lastEvent]]

\* the timer of the current wait fires
TimedTimeout ==
    /\ TimerExpired(timer.armedAt, now)
    /\ OrchTimeoutStep
    /\ side' = [side EXCEPT !.timer.armedAt = Rearm(@, now)]

\* time passes while DiscoverBridges is in its loop; the clock is not read
\* after it has returned
TimedTick == pc # "returned" /\ Tick

NextTimer ==
    \/ TimedTick
    \/ TimedReceive
    \/ TimedTimeout
    \/ UpnpListen
    \/ UpnpWrite
    \/ UpnpReadError
    \/ UpnpRead
    \/ UpnpSend
    \/ NupnpGet
    \/ NupnpSend
    \/ NupnpReturn
    \/ ValidateCandidate
    \/ ValidateSend

SpecTimer == InitTimer /\ [][NextTimer]_vars

\* C29: a timeout expiry happens only when a full timeout period has passed
\* since the latest event on the results stream (or since the start of the
\* run), and a bridge received in exhaustive mode is appended whenever it
\* arrives.
C29_TimeoutRearmed ==
    [][/\ TimeoutExpires => now >= timer.lastEvent + discoveryTimeout
       /\ (discoverAllBridges /\ pc = "select" /\ bridgeChannel # <<>>
              /\ bridgeChannel' = Tail(bridgeChannel))
             => bridges' = Append(bridges, NewBridge(Head(bridgeChannel), ""))]_vars

\* the second bridge arrived later than one period after the start, less
\* than one period after the first, and is in the returned list
C29_Witness ==
    /\ Returned /\ discoverAllBridges /\ err = "nil"
    /\ Len(bridges) = 2
    /\ timer.lastEvent > discoveryTimeout
    /\ timer.prevEvent > 0
    /\ timer.lastEvent - timer.prevEvent < discoveryTimeout

\* a prober stands at a send on the candidate channel
UpnpAtSend == upc = "send"
NupnpAtSend == npc = "emit" /\ manifest # <<>>
\* scanLocalNetwork stands at a send on, or at the close of, the candidate
\* channel
ScanAtChannel == pc = "scanFeed"

\* C30: in part_005 no channel operation can panic: no prober stands at a
\* send on the candidate channel once scanLocalNetwork has closed it,
\* scanLocalNetwork never sends on or closes the closed candidate channel,
\* and validateBridges neither sends on nor closes the closed results
\* channel.
C30_NoChannelPanic ==
    variant = "part_005"
       => /\ hostClosed => (~UpnpAtSend /\ ~NupnpAtSend /\ ~ScanAtChannel)
          /\ bridgeClosed => vpc = "done"

\* ---- the methods of a Bridge, called concurrently ----

\* get, post, put and delete ("request") differ only in the verb and the
\* body they hand to do
Methods == {"request", "CreateUser", "EnableHTTPS", "Debug", "EnableRateLimiting"}
Setters == {"EnableHTTPS", "Debug", "EnableRateLimiting"}

\* the field a method assigns outside do
FieldWritten(m) ==
    CASE m = "CreateUser" -> "Username"
      [] m = "EnableHTTPS" -> "useHTTPS"
      [] m = "Debug" -> "debug"
      [] m = "EnableRateLimiting" -> "delayBetweenRequests"
      [] OTHER -> "none"

\* the values a setter can be called with
SetterArgs(m) ==
    CASE m = "EnableHTTPS" -> BOOLEAN
      [] m = "Debug" -> {TRUE}
      [] m = "EnableRateLimiting" -> {0, MaxDelay}

\* the response array of the bridge is empty
NoEntry == 0 - 1

\* a caller between two calls
NoCall == [method |-> "none", at |-> "idle"]

\* a Bridge as NewBridge(ip, username) makes it, shared by the callers: its
\* mutable fields (the value of lastRequestTimestamp is not tracked here),
\* the holder of bridge.lock (0: unlocked), and for every caller the method
\* it is in and its position. History: what the call that returned last
\* returned, and whether the fields read for the URL built last were being
\* written by another caller at that time (the URL is then undefined)
BridgeShared(username) ==
    [Username |-> username, useHTTPS |-> FALSE, debug |-> FALSE,
     delayBetweenRequests |-> 0, lock |-> 0,
     call |-> [c \in Callers |-> NoCall], panicked |-> FALSE,
     returned |-> "none", raced |-> FALSE]

InitMethods ==
    /\ variant = "discover.go"
    /\ discoverAllBridges = FALSE
    /\ RunInit
    /\ ProbeIdle
    /\ \E u \in UserNames \cup {NoName} :
          side = Side("none", BridgeShared(u), "none")

At(c) == bridge.call[c].at
Method(c) == bridge.call[c].method

\* bridge.lock.Lock() returns only when no one holds the mutex
MutexFreeAlways(holder) == TRUE
MutexFree(holder) == holder = 0
\* defer bridge.lock.Unlock()
UnlockNever(holder) == holder
Unlock(holder) == 0

\* the fields caller c reads or writes in its next step
Reads(c) ==
    CASE At(c) = "url" /\ Method(c) = "request" -> {"Username", "useHTTPS"}
      [] At(c) = "url" /\ Method(c) = "CreateUser" -> {"useHTTPS"}
      [] At(c) = "do" -> {"delayBetweenRequests", "lastRequestTimestamp", "debug"}
      [] At(c) = "inflight" -> {"debug"}
      [] OTHER -> {}
Writes(c) ==
    CASE At(c) \in {"write", "set"} -> {FieldWritten(Method(c))}
      [] At(c) = "inflight" -> {"lastRequestTimestamp"}
      [] OTHER -> {}

\* the callers other than c that are about to write a field c is about to
\* read
WritersAgainst(c) == {d \in Callers \ {c} : Writes(d) \cap Reads(c) # {}}

\* caller c calls method m
CallBegin(c, m) ==
    /\ ~bridge.panicked
    /\ At(c) = "idle"
    /\ side' = [side EXCEPT !.bridge.call[c] =
                   [method |-> m,
                    at |-> IF m \in Setters THEN "lock" ELSE "url"]]
    /\ UNCHANGED discoveryVars

\* bridge.toURI(path), or bridge.baseURL() in CreateUser: the argument of do
\* is evaluated before do is entered
BuildUrl(c) ==
    /\ ~bridge.panicked
    /\ At(c) = "url"
    /\ side' = [side EXCEPT !.bridge.raced = (WritersAgainst(c) # {}),
                            !.bridge.call[c].at = "lock"]
    /\ UNCHANGED discoveryVars

\* bridge.lock.Lock() in do, in a setter, or in CreateUser after do
AcquireLock(c) ==
    /\ ~bridge.panicked
    /\ At(c) \in {"lock", "relock"}
    /\ MutexFree(bridge.lock)
    /\ side' = [side EXCEPT
                   !.bridge.lock = c,
                   !.bridge.call[c].at =
                       IF At(c) = "relock" THEN "write"
                       ELSE IF Method(c) \in Setters THEN "set" ELSE "do"]
    /\ UNCHANGED discoveryVars

\* bridge.debug = true, bridge.useHTTPS = enable or
\* bridge.delayBetweenRequests = delayBetweenRequests; the deferred Unlock
SetField(c) ==
    /\ ~bridge.panicked
    /\ At(c) = "set"
    /\ \E a \in SetterArgs(Method(c)) :
          side' = [side EXCEPT
                      !.bridge[FieldWritten(Method(c))] = a,
                      !.bridge.lock = Unlock(@),
                      !.bridge.returned = "nil",
                      !.bridge.call[c] = NoCall]
    /\ UNCHANGED discoveryVars

\* do up to client.Do: the rate limit, json.Marshal and http.NewRequest; an
\* error of the latter two returns it
DoRequest(c) ==
    /\ ~bridge.panicked
    /\ At(c) = "do"
    /\ \/ \E e \in {"marshal", "newrequest"} :
             side' = [side EXCEPT
                         !.bridge.lock = Unlock(@),
                         !.bridge.returned = e,
                         !.bridge.call[c] = NoCall]
       \/ side' = [side EXCEPT !.bridge.call[c].at = "inflight"]
    /\ UNCHANGED discoveryVars

\* what do can return once the request was sent
SentOutcomes == {"transport", "read", "decode", "nil"}

\* client.Do returns; bridge.lastRequestTimestamp = time.Now(); the body is
\* read and decoded; do returns. CreateUser goes on when do returned nil
DoReturn(c) ==
    /\ ~bridge.panicked
    /\ At(c) = "inflight"
    /\ \E e \in SentOutcomes :
          IF Method(c) = "CreateUser" /\ e = "nil"
             THEN side' = [side EXCEPT
                              !.bridge.lock = Unlock(@),
                              !.bridge.call[c].at = "relock"]
             ELSE side' = [side EXCEPT
                              !.bridge.lock = Unlock(@),
                              !.bridge.returned = e,
                              !.bridge.call[c] = NoCall]
    /\ UNCHANGED discoveryVars

\* value := results[0]; bridge.Username = value["success"]["username"];
\* return nil, with the username of results[0] (NoName when a key is
\* missing). The index panics on an empty array; the deferred Unlock runs
\* while the panic unwinds
StoreUsername(c) ==
    /\ ~bridge.panicked
    /\ At(c) = "write"
    /\ \E a \in UserNames \cup {NoName, NoEntry} :
          IF a = NoEntry
             THEN side' = [side EXCEPT
                              !.bridge.lock = Unlock(@),
                              !.bridge.panicked = TRUE,
                              !.bridge.call[c].at = "panicked"]
             ELSE side' = [side EXCEPT
                              !.bridge.Username = a,
                              !.bridge.lock = Unlock(@),
                              !.bridge.returned = "nil",
                              !.bridge.call[c] = NoCall]
    /\ UNCHANGED discoveryVars

\* a step of a call that is under way
Advance ==
    \E c \in Callers :
       \/ BuildUrl(c)
       \/ AcquireLock(c)
       \/ SetField(c)
       \/ DoRequest(c)
       \/ DoReturn(c)
       \/ StoreUsername(c)

NextMethods ==
    \/ \E c \in Callers, m \in Methods : CallBegin(c, m)
    \/ \E c \in Callers : BuildUrl(c)
    \/ \E c \in Callers : AcquireLock(c)
    \/ \E c \in Callers : SetField(c)
    \/ \E c \in Callers : DoRequest(c)
    \/ \E c \in Callers : DoReturn(c)
    \/ \E c \in Callers : StoreUsername(c)

SpecMethods == InitMethods /\ [][NextMethods]_vars

\* the callers whose HTTP request is in flight
InFlight == {c \in Callers : At(c) = "inflight"}

\* C31: at most one HTTP request of a Bridge is in flight at any time,
\* whichever methods its concurrent callers are in.
C31_OneRequestInFlight == Cardinality(InFlight) <= 1

\* a request is in flight while CreateUser and another request wait for the
\* lock in do
C31_Witness ==
    \E c, d \in Callers :
       /\ At(c) = "inflight" /\ At(d) = "lock"
       /\ Method(c) # Method(d)
       /\ {Method(c), Method(d)} = {"request", "CreateUser"}

\* caller c is outside every locked region
Outside(c) == At(c) \in {"idle", "url", "lock", "relock"}
\* some call is under way
Pending == \E c \in Callers : At(c) # "idle"

\* C32: bridge.lock is released on every exit path of every method and is
\* never acquired by its holder: a caller outside the locked regions never
\* holds the lock, and as long as a call is under way and the process is
\* alive, some call can take its next step.
C32_LockAlwaysReleased ==
    /\ \A c \in Callers : Outside(c) => bridge.lock # c
    /\ (Pending /\ ~bridge.panicked) => ENABLED Advance

\* a request failed before it was sent, and a later request of another
\* caller is in flight
C32_Witness ==
    \E c, d \in Callers :
       /\ At(c) = "idle" /\ bridge.returned = "marshal"
       /\ At(d) = "inflight" /\ bridge.lock = d

\* some caller is about to read, without holding the lock, a field that
\* another caller is about to write
RacingRead ==
    \E c \in Callers :
       Reads(c) # {} /\ bridge.lock # c /\ WritersAgainst(c) # {}

\* C33: every read and every write of a mutable field of the Bridge happens
\* while the caller holds bridge.lock, so that no caller reads a field
\* without the lock while another caller writes it.
C33_FieldAccessUnderLock ==
    /\ \A c \in Callers : (Reads(c) \cup Writes(c)) # {} => bridge.lock = c
    /\ ~RacingRead

\* ---- Scene.ModifyLightStates ----

LightIds == 1..MaxLights

\* what Scene.ModifyLightState(light, lightstate) returns: nil and the error
\* of the PUT, or the decoded results of the bridge and nil
LightAnswers(light) ==
    {[err |-> "err", results |-> <<>>]}
        \cup {[err |-> "nil",
               results |-> [i \in 1..k |-> [light |-> light, entry |-> i]]] :
                 k \in 0..MaxEntries}

\* a Scene with the given Lights when ModifyLightStates is called: the
\* position in the range over scene.Lights (next), `var results []Result`,
\* what was returned (err), and as history the lights a request was sent for
\* and what each request answered
SceneOf(lights) ==
    [Lights |-> lights, next |-> 1, results |-> <<>>, err |-> "none",
     pc |-> "range", requested |-> <<>>, answers |-> <<>>]

InitScene ==
    /\ variant = "discover.go"
    /\ discoverAllBridges = FALSE
    /\ RunInit
    /\ ProbeIdle
    /\ \E lights \in SeqsUpTo(LightIds, MaxLights) :
          side = [Side("none", "none", "none") EXCEPT !.scene = SceneOf(lights)]

\* if err != nil { return results, err }
StopOnErrorNever(e) == FALSE
StopOnError(e) == e # "nil"

\* result, err := scene.ModifyLightState(light, lightstate);
\* results = append(results, result...); if err != nil { return results, err }
SceneModifyLight ==
    /\ scene.pc = "range"
    /\ scene.next <= Len(scene.Lights)
    /\ \E a \in LightAnswers(scene.Lights[scene.next]) :
          side' = [side EXCEPT
                      !.scene.requested = Append(@, scene.Lights[scene.next]),
                      !.scene.answers = Append(@, a),
                      !.scene.results = @ \o a.results,
                      !.scene.next = IF StopOnError(a.err) THEN @ ELSE @ + 1,
                      !.scene.err = IF StopOnError(a.err) THEN a.err ELSE @,
                      !.scene.pc = IF StopOnError(a.err) THEN "returned" ELSE @]
    /\ UNCHANGED discoveryVars

\* the range is exhausted: return results, nil
SceneReturn ==
    /\ scene.pc = "range"
    /\ scene.next > Len(scene.Lights)
    /\ side' = [side EXCEPT !.scene.err = "nil", !.scene.pc = "returned"]
    /\ UNCHANGED discoveryVars

NextScene == SceneModifyLight \/ SceneReturn

SpecScene == InitScene /\ [][NextScene]_vars

\* the results of the first n answers, one after the other
RECURSIVE Concatenated(_, _)
Concatenated(answers, n) ==
    IF n = 0 THEN <<>>
    ELSE Concatenated(answers, n - 1) \o answers[n].results

\* the first n requests succeeded
AllSucceeded(n) == \A i \in 1..n : scene.answers[i].err = "nil"

\* C34: ModifyLightStates sends the requests light by light in list order;
\* it returns at the first failing light with that error and the results of
\* the lights before it, no request having been sent for the lights after
\* it; without a failure it returns nil and the results of all lights, in
\* order.
C34_StopsAtFirstFailure ==
    LET n == Len(scene.requested) IN
    /\ IsPrefix(scene.requested, scene.Lights)
    /\ Len(scene.answers) = n
    /\ (scene.pc = "returned" /\ scene.err = "nil")
          => (/\ scene.requested = scene.Lights
              /\ AllSucceeded(n)
              /\ scene.results = Concatenated(scene.answers, n))
    /\ (scene.pc = "returned" /\ scene.err # "nil")
          => (/\ n >= 1
              /\ scene.answers[n].err = scene.err
              /\ AllSucceeded(n - 1)
              /\ scene.results = Concatenated(scene.answers, n - 1))
    /\ scene.pc = "range" => AllSucceeded(n)

\* the first light answered two results, the request for the second light
\* failed, and a third light was left
C34_Witness ==
    /\ scene.pc = "returned" /\ scene.err = "err"
    /\ Len(scene.requested) = 2
    /\ Len(scene.results) = 2
    /\ Len(scene.Lights) = 3

====
